---- MODULE Spec2Model ----
(***************************************************************************)
(* Model of the account "Create" dialog (app-accounts, modals/Create.tsx)  *)
(* and of the contract code card (app-contracts, Codes/Code.tsx).          *)
(*                                                                         *)
(* Strings are sequences of tokens.  A token stands for a run of           *)
(* characters of one class and carries the number of characters it holds:  *)
(*   "w"    a run of word characters (\w) that is neither a dictionary     *)
(*          word of a mnemonic nor 0x-prefixed hex                         *)
(*   "dict" a BIP39 dictionary word standing in a phrase whose checksum    *)
(*          is right                                                       *)
(*   "hex"  the run "0x" followed by hexadecimal digits                    *)
(*   "sl"   one '/'      "sp"  one space      "bang"  one other character  *)
(* Two word runs never stand next to each other: concatenation merges      *)
(* them, as concatenating the characters does.                             *)
(***************************************************************************)
EXTENDS Integers, Sequences, FiniteSets, TLC

VARIABLES
  \* ---- Create dialog: AddressState (part_000:31-39)
  address, deriveError, derivePath, isSeedValid, pairType, seed, seedType,
  \* ---- Create dialog: the other hooks and the props (part_000:125-129)
  isDevelopment, isConfirmationOpen, isNameValid, name, isPassValid, password,
  \* ---- Create dialog: what the handlers do to the outside
  lastOp,      \* the function that ran last
  escaped,     \* TRUE iff that function threw to its caller
  persisted,   \* the calls made to keyring.addUri
  status,      \* what onStatusChange was given, NULL before
  closed,      \* onClose was called
  \* ---- code card (Code.tsx:25-28 and its props and store)
  isForgetOpen, isRemoveABIOpen, codeHash, allCode, forgetCalls, consoleErrors,
  cardOp, cardEscaped

createVars == <<address, deriveError, derivePath, isSeedValid, pairType, seed,
                seedType, isDevelopment, isConfirmationOpen, isNameValid, name,
                isPassValid, password, lastOp, escaped, persisted, status,
                closed>>

cardVars == <<isForgetOpen, isRemoveABIOpen, codeHash, allCode, forgetCalls,
              consoleErrors, cardOp, cardEscaped>>

vars == <<createVars, cardVars>>

\* null / undefined
NULL == [null |-> TRUE]

----------------------------------------------------------------------------
(* Strings *)

W(n) == [k |-> "w", n |-> n]
D(n) == [k |-> "dict", n |-> n]
HexTok(n) == [k |-> "hex", n |-> n]
SL == [k |-> "sl", n |-> 1]
SP == [k |-> "sp", n |-> 1]
BANG == [k |-> "bang", n |-> 1]

IsWordTok(t) == t.k \in {"w", "dict", "hex"}

\* String.prototype.length
RECURSIVE StrLen(_)
StrLen(s) == IF s = <<>> THEN 0 ELSE Head(s).n + StrLen(Tail(s))

\* `${a}${b}`
Concat(a, b) ==
  IF a # <<>> /\ b # <<>> /\ IsWordTok(a[Len(a)]) /\ IsWordTok(b[1])
  THEN SubSeq(a, 1, Len(a) - 1) \o <<W(a[Len(a)].n + b[1].n)>> \o Tail(b)
  ELSE a \o b

\* String.prototype.trim
RECURSIVE TrimStart(_)
TrimStart(s) == IF s # <<>> /\ Head(s).k = "sp" THEN TrimStart(Tail(s)) ELSE s

RECURSIVE TrimEnd(_)
TrimEnd(s) ==
  IF s # <<>> /\ s[Len(s)].k = "sp" THEN TrimEnd(SubSeq(s, 1, Len(s) - 1)) ELSE s

trim(s) == TrimEnd(TrimStart(s))

\* words joined by single spaces
Words(lens) ==
  [i \in 1..(2 * Len(lens) - 1) |->
     IF i % 2 = 1 THEN D(lens[(i + 1) \div 2]) ELSE SP]

\* 'bottom drive obey lake curtain smoke basket hold race lonely fit walk'
DEV_PHRASE == Words(<<6, 5, 4, 4, 7, 5, 6, 4, 4, 6, 3, 4>>)

----------------------------------------------------------------------------
(* @polkadot/util and @polkadot/util-crypto, as the dialog uses them *)

\* isHex(value, bitLength = -1): /^0x[a-fA-F0-9]+$/ or '0x', of even length,
\* or of exactly 2 + bitLength / 4 characters when bitLength is given
isHex(value, bitLength) ==
  /\ Len(value) = 1
  /\ value[1].k = "hex"
  /\ IF bitLength # -1
     THEN value[1].n = 2 + (bitLength \div 4)
     ELSE value[1].n % 2 = 0

\* ^\w+( \w+)*$
IsPhrase(p) ==
  /\ Len(p) % 2 = 1
  /\ \A i \in 1..Len(p) : IF i % 2 = 1 THEN IsWordTok(p[i]) ELSE p[i].k = "sp"

\* the number of leading tokens of s that are (isSlash) or are not slashes
RECURSIVE Run(_, _)
Run(s, isSlash) ==
  IF s # <<>> /\ ((Head(s).k = "sl") = isSlash)
  THEN 1 + Run(Tail(s), isSlash)
  ELSE 0

\* ((\/\/?[^/]+)*)(\/\/\/(.*))?$ : the junctions, each soft ('/') or hard
\* ('//'); from '///' on the rest is the password
RECURSIVE ParsePath(_)
ParsePath(s) ==
  IF s = <<>> THEN [ok |-> TRUE, path |-> <<>>]
  ELSE LET slashes == Run(s, TRUE)
           after == SubSeq(s, slashes + 1, Len(s))
           chars == Run(after, FALSE)
       IN IF slashes >= 3 THEN [ok |-> TRUE, path |-> <<>>]
          ELSE IF chars = 0 THEN [ok |-> FALSE, path |-> <<>>]
          ELSE LET rest == ParsePath(SubSeq(after, chars + 1, Len(after)))
               IN [ok |-> rest.ok,
                   path |-> <<[isSoft |-> (slashes = 1)]>> \o rest.path]

\* keyExtractSuri: /^(\w+( \w+)*)((\/\/?[^/]+)*)(\/\/\/(.*))?$/, throws when
\* the value does not match
keyExtractSuri(suri) ==
  LET first == Run(suri, FALSE)
      phrase == SubSeq(suri, 1, first)
      parsed == ParsePath(SubSeq(suri, first + 1, Len(suri)))
  IN IF IsPhrase(phrase) /\ parsed.ok
     THEN [threw |-> FALSE, phrase |-> phrase, path |-> parsed.path]
     ELSE [threw |-> TRUE,
           message |-> "Unable to match provided value to a secret URI"]

MnemonicWordCounts == {12, 15, 18, 21, 24}

\* mnemonicValidate: every word of the dictionary, a right number of them,
\* joined by single spaces, the checksum right
mnemonicValidate(mnemonic) ==
  /\ Len(mnemonic) % 2 = 1
  /\ ((Len(mnemonic) + 1) \div 2) \in MnemonicWordCounts
  /\ \A i \in 1..Len(mnemonic) :
       IF i % 2 = 1 THEN mnemonic[i].k = "dict" ELSE mnemonic[i].k = "sp"

\* keyring.createFromUri(suri, {}, type).address; throws on a suri that does
\* not parse, on a phrase that is neither a 32-byte hex seed, a mnemonic nor
\* a string of at most 32 characters, and on a soft junction under ed25519
createFromUri(_suri, type) ==
  LET suri == IF Run(_suri, TRUE) >= 2 THEN Concat(DEV_PHRASE, _suri) ELSE _suri
      ext == keyExtractSuri(suri)
  IN IF ext.threw THEN [threw |-> TRUE]
     ELSE LET parts == (Len(ext.phrase) + 1) \div 2
              seedOk ==
                IF isHex(ext.phrase, 256) THEN TRUE
                ELSE IF parts \in MnemonicWordCounts
                     THEN mnemonicValidate(ext.phrase)
                     ELSE StrLen(ext.phrase) <= 32
              pathOk == type # "ed25519" \/ \A i \in 1..Len(ext.path) : ~ext.path[i].isSoft
          IN IF seedOk /\ pathOk
             THEN [threw |-> FALSE,
                   address |-> [phrase |-> ext.phrase, path |-> ext.path, type |-> type]]
             ELSE [threw |-> TRUE]

\* keyring.isPassValid
keyringIsPassValid(pass) == pass > 0 /\ pass <= 32

----------------------------------------------------------------------------
(* modals/Create.tsx: the functions *)

DEFAULT_PAIR_TYPE == "sr25519"

RawMaxLen == 32
HexSeedLen == 66

\* deriveValidate without its check of soft junctions
deriveValidate_NoSoftCheck(_seed, _derivePath, _pairType) ==
  LET ext == keyExtractSuri(Concat(_seed, _derivePath))
  IN IF ext.threw THEN [message |-> ext.message] ELSE NULL

deriveValidate(_seed, _derivePath, _pairType) ==
  LET ext == keyExtractSuri(Concat(_seed, _derivePath))
  IN IF ext.threw THEN [message |-> ext.message]
     ELSE IF _pairType = "ed25519" /\ \E i \in 1..Len(ext.path) : ext.path[i].isSoft
          THEN [message |-> "Soft derivation paths are not allowed on ed25519"]
          ELSE NULL

isHexSeed(_seed) == isHex(_seed, -1) /\ StrLen(_seed) = HexSeedLen

\* rawValidate with < for <=
rawValidate_Strict(_seed) ==
  (StrLen(_seed) > 0 /\ StrLen(_seed) < RawMaxLen) \/ isHexSeed(_seed)

rawValidate(_seed) ==
  (StrLen(_seed) > 0 /\ StrLen(_seed) <= RawMaxLen) \/ isHexSeed(_seed)

addressFromSeed(phrase, _derivePath, _pairType) ==
  createFromUri(Concat(trim(phrase), _derivePath), _pairType)

\* an absent seed: undefined, null and '' are falsy alike where the code
\* looks at them
NoSeed == <<>>

\* generated: what mnemonicGenerate() returns this time;
\* u8aToHex(randomAsU8a()) is 32 random bytes as 0x-prefixed hex
newSeed(_seed, _seedType, generated) ==
  CASE _seedType = "bip" -> generated
    [] _seedType = "dev" -> DEV_PHRASE
    [] OTHER -> IF _seed # NoSeed THEN _seed ELSE <<HexTok(66)>>

generateSeed(_seed, _derivePath, _seedType, _pairType, generated) ==
  LET s == newSeed(_seed, _seedType, generated)
      a == addressFromSeed(s, _derivePath, _pairType)
  IN IF a.threw THEN [threw |-> TRUE]
     ELSE [threw |-> FALSE,
           state |-> [address |-> a.address,
                      deriveError |-> NULL,
                      derivePath |-> _derivePath,
                      isSeedValid |-> TRUE,
                      pairType |-> _pairType,
                      seedType |-> _seedType,
                      seed |-> s]]

\* updateAddress computing the address whatever deriveError is
updateAddress_IgnoreDeriveError(_seed, _derivePath, _seedType, _pairType) ==
  LET err == deriveValidate(_seed, _derivePath, _pairType)
      valid == IF _seedType = "raw" THEN rawValidate(_seed) ELSE mnemonicValidate(_seed)
      a == IF valid
           THEN addressFromSeed(_seed, _derivePath, _pairType)
           ELSE [threw |-> FALSE, address |-> NULL]
  IN [threw |-> FALSE,
      state |-> [address |-> IF a.threw THEN NULL ELSE a.address,
                 deriveError |-> err,
                 derivePath |-> _derivePath,
                 isSeedValid |-> IF a.threw THEN FALSE ELSE valid,
                 pairType |-> _pairType,
                 seedType |-> _seedType,
                 seed |-> _seed]]

\* updateAddress without the try/catch around addressFromSeed
updateAddress_NoCatch(_seed, _derivePath, _seedType, _pairType) ==
  LET err == deriveValidate(_seed, _derivePath, _pairType)
      valid == IF _seedType = "raw" THEN rawValidate(_seed) ELSE mnemonicValidate(_seed)
      a == IF err = NULL /\ valid
           THEN addressFromSeed(_seed, _derivePath, _pairType)
           ELSE [threw |-> FALSE, address |-> NULL]
  IN [threw |-> a.threw,
      state |-> [address |-> IF a.threw THEN NULL ELSE a.address,
                 deriveError |-> err,
                 derivePath |-> _derivePath,
                 isSeedValid |-> IF a.threw THEN FALSE ELSE valid,
                 pairType |-> _pairType,
                 seedType |-> _seedType,
                 seed |-> _seed]]

\* updateAddress marking the seed invalid on a deriveError
updateAddress_ErrorInvalidates(_seed, _derivePath, _seedType, _pairType) ==
  LET err == deriveValidate(_seed, _derivePath, _pairType)
      valid == IF _seedType = "raw" THEN rawValidate(_seed) ELSE mnemonicValidate(_seed)
      a == IF err = NULL /\ valid
           THEN addressFromSeed(_seed, _derivePath, _pairType)
           ELSE [threw |-> FALSE, address |-> NULL]
  IN [threw |-> FALSE,
      state |-> [address |-> IF a.threw THEN NULL ELSE a.address,
                 deriveError |-> err,
                 derivePath |-> _derivePath,
                 isSeedValid |-> IF a.threw \/ err # NULL THEN FALSE ELSE valid,
                 pairType |-> _pairType,
                 seedType |-> _seedType,
                 seed |-> _seed]]

\* updateAddress storing the trimmed seed
updateAddress_TrimSeed(_seed, _derivePath, _seedType, _pairType) ==
  LET err == deriveValidate(_seed, _derivePath, _pairType)
      valid == IF _seedType = "raw" THEN rawValidate(_seed) ELSE mnemonicValidate(_seed)
      a == IF err = NULL /\ valid
           THEN addressFromSeed(_seed, _derivePath, _pairType)
           ELSE [threw |-> FALSE, address |-> NULL]
  IN [threw |-> FALSE,
      state |-> [address |-> IF a.threw THEN NULL ELSE a.address,
                 deriveError |-> err,
                 derivePath |-> _derivePath,
                 isSeedValid |-> IF a.threw THEN FALSE ELSE valid,
                 pairType |-> _pairType,
                 seedType |-> _seedType,
                 seed |-> trim(_seed)]]

updateAddress(_seed, _derivePath, _seedType, _pairType) ==
  LET err == deriveValidate(_seed, _derivePath, _pairType)
      valid == IF _seedType = "raw" THEN rawValidate(_seed) ELSE mnemonicValidate(_seed)
      a == IF err = NULL /\ valid
           THEN addressFromSeed(_seed, _derivePath, _pairType)
           ELSE [threw |-> FALSE, address |-> NULL]
  IN [threw |-> FALSE,
      state |-> [address |-> IF a.threw THEN NULL ELSE a.address,
                 deriveError |-> err,
                 derivePath |-> _derivePath,
                 isSeedValid |-> IF a.threw THEN FALSE ELSE valid,
                 pairType |-> _pairType,
                 seedType |-> _seedType,
                 seed |-> _seed]]

\* isValid without isPassValid
isValid_NoPass ==
  address # NULL /\ deriveError = NULL /\ isNameValid /\ isSeedValid

isValid ==
  address # NULL /\ deriveError = NULL /\ isNameValid /\ isPassValid /\ isSeedValid

\* the AddressState the dialog holds
AddressState ==
  [address |-> address, deriveError |-> deriveError, derivePath |-> derivePath,
   isSeedValid |-> isSeedValid, pairType |-> pairType, seedType |-> seedType,
   seed |-> seed]

----------------------------------------------------------------------------
(* The values the user and the caller supply *)

\* twelve one-letter words: 23 characters, not a mnemonic
ShortWords == [i \in 1..23 |-> IF i % 2 = 1 THEN W(1) ELSE SP]

\* a second mnemonic
OtherMnemonic == Words(<<4, 4, 5, 3, 6, 5, 4, 7, 5, 4, 6, 5>>)

GeneratedMnemonics == {DEV_PHRASE, OtherMnemonic}

Seeds ==
  { <<>>, <<W(1)>>, <<W(32)>>, <<W(33)>>, <<W(66)>>,
    <<HexTok(64)>>, <<HexTok(66)>>, <<HexTok(68)>>,
    DEV_PHRASE, ShortWords,
    <<W(3), SP>>, <<W(3), SL>>, <<W(3), SL, SL, SL, W(2)>>, <<W(3), BANG>> }

DerivePaths ==
  { <<>>, <<SL, W(4)>>, <<SL, SL, W(4)>>, <<SL, SL, W(4), SL, W(4)>>,
    <<SL>>, <<W(2)>>, <<SL, SL, SL, W(2), SL, W(4)>>, <<BANG>> }

PairTypes == {"ed25519", "sr25519"}

PropsSeeds == {NoSeed, <<HexTok(66)>>, <<W(3)>>, DEV_PHRASE, <<W(33)>>}

Passwords == {0, 32, 33}

MaxNameLen == 2

NameChars == {"c", "s"}

Names == UNION {[1..n -> NameChars] : n \in 0..MaxNameLen}

\* String.prototype.trim on a name
RECURSIVE NameTrimStart(_)
NameTrimStart(s) ==
  IF s # <<>> /\ Head(s) = "s" THEN NameTrimStart(Tail(s)) ELSE s

RECURSIVE NameTrimEnd(_)
NameTrimEnd(s) ==
  IF s # <<>> /\ s[Len(s)] = "s"
  THEN NameTrimEnd(SubSeq(s, 1, Len(s) - 1))
  ELSE s

nameTrim(s) == NameTrimEnd(NameTrimStart(s))

----------------------------------------------------------------------------
(* modals/Create.tsx: the dialog *)

setAddress(st) ==
  /\ address' = st.address
  /\ deriveError' = st.deriveError
  /\ derivePath' = st.derivePath
  /\ isSeedValid' = st.isSeedValid
  /\ pairType' = st.pairType
  /\ seedType' = st.seedType
  /\ seed' = st.seed

addressVars == <<address, deriveError, derivePath, isSeedValid, pairType, seed, seedType>>

outside == <<persisted, status, closed>>

\* the code hashes of the store, and what the store holds for one
CodeHashes == {"0xc0de1", "0xc0de2"}

AbiStates == {"absent", "stored", "withAbi"}

CardIdle ==
  /\ isForgetOpen = FALSE
  /\ isRemoveABIOpen = FALSE
  /\ codeHash = ""
  /\ allCode = [h \in CodeHashes |-> "absent"]
  /\ forgetCalls = 0
  /\ consoleErrors = 0
  /\ cardOp = "none"
  /\ cardEscaped = FALSE

\* the dialog as mounted: generateSeed(propsSeed, '', propsSeed ? 'raw' : 'bip',
\* propsType); there is a dialog only when that call returned
Init ==
  /\ \E propsSeed \in PropsSeeds, propsType \in PairTypes \cup {"undefined"},
        generated \in GeneratedMnemonics :
       LET r == generateSeed(propsSeed, <<>>,
                             IF propsSeed # NoSeed THEN "raw" ELSE "bip",
                             IF propsType = "undefined" THEN DEFAULT_PAIR_TYPE ELSE propsType,
                             generated)
       IN /\ ~r.threw
          /\ address = r.state.address
          /\ deriveError = r.state.deriveError
          /\ derivePath = r.state.derivePath
          /\ isSeedValid = r.state.isSeedValid
          /\ pairType = r.state.pairType
          /\ seedType = r.state.seedType
          /\ seed = r.state.seed
  /\ isDevelopment \in BOOLEAN
  /\ isConfirmationOpen = FALSE
  /\ isNameValid = TRUE
  /\ name = <<"c", "s", "c">>
  /\ isPassValid = FALSE
  /\ password = 0
  /\ lastOp = "generateSeed"
  /\ escaped = FALSE
  /\ persisted = {}
  /\ status = NULL
  /\ closed = FALSE
  /\ CardIdle

_onChangePass ==
  /\ ~closed
  /\ \E pass \in Passwords :
       /\ isPassValid' = keyringIsPassValid(pass)
       /\ password' = pass
  /\ lastOp' = "_onChangePass"
  /\ escaped' = FALSE
  /\ UNCHANGED <<addressVars, isDevelopment, isConfirmationOpen, isNameValid, name, outside, cardVars>>

\* a handler whose call threw never reaches its setAddress
UpdateStep(r) ==
  /\ IF r.threw THEN UNCHANGED addressVars ELSE setAddress(r.state)
  /\ lastOp' = "updateAddress"
  /\ escaped' = r.threw
  /\ UNCHANGED <<isDevelopment, isConfirmationOpen, isNameValid, name, isPassValid, password, outside, cardVars>>

_onChangeDerive ==
  /\ ~closed
  /\ \E newDerivePath \in DerivePaths :
       UpdateStep(updateAddress(seed, newDerivePath, seedType, pairType))

\* the seed input is read-only under 'dev'
_onChangeSeed ==
  /\ ~closed
  /\ seedType # "dev"
  /\ \E newSeed_ \in Seeds :
       UpdateStep(updateAddress(newSeed_, derivePath, seedType, pairType))

_onChangePairType ==
  /\ ~closed
  /\ \E newPairType \in PairTypes :
       UpdateStep(updateAddress(seed, derivePath, seedType, newPairType))

\* the options are 'bip' and 'raw', and 'dev' when isDevelopment
_selectSeedType ==
  /\ ~closed
  /\ \E newSeedType \in {"bip", "raw"} \cup (IF isDevelopment THEN {"dev"} ELSE {}),
        generated \in GeneratedMnemonics :
       /\ newSeedType # seedType
       /\ LET r == generateSeed(NoSeed, derivePath, newSeedType, pairType, generated)
          IN /\ IF r.threw THEN UNCHANGED addressVars ELSE setAddress(r.state)
             /\ escaped' = r.threw
  /\ lastOp' = "generateSeed"
  /\ UNCHANGED <<isDevelopment, isConfirmationOpen, isNameValid, name, isPassValid, password, outside, cardVars>>

_onChangeName ==
  /\ ~closed
  /\ \E _name \in Names :
       /\ name' = nameTrim(_name)
       /\ isNameValid' = (nameTrim(_name) # <<>>)
  /\ lastOp' = "_onChangeName"
  /\ escaped' = FALSE
  /\ UNCHANGED <<addressVars, isDevelopment, isConfirmationOpen, isPassValid, password, outside, cardVars>>

\* reached from the Save button, enabled when isValid, and from the
\* confirmation, rendered when address && isConfirmationOpen
_toggleConfirmation ==
  /\ ~closed
  /\ isValid \/ (address # NULL /\ isConfirmationOpen)
  /\ isConfirmationOpen' = ~isConfirmationOpen
  /\ lastOp' = "_toggleConfirmation"
  /\ escaped' = FALSE
  /\ UNCHANGED <<addressVars, isDevelopment, isNameValid, name, isPassValid, password, outside, cardVars>>

\* reached from the confirmation and from Enter in any input;
\* keyring.addUri and FileSaver.saveAs return or throw
_onCommit ==
  /\ ~closed
  /\ lastOp' = "_onCommit"
  /\ escaped' = FALSE
  /\ IF ~isValid
     THEN UNCHANGED <<isConfirmationOpen, outside>>
     ELSE \E outcome \in {"success", "error"} :
            /\ persisted' = persisted \cup
                 {[uri |-> Concat(seed, derivePath), password |-> password,
                   name |-> name, pairType |-> pairType]}
            /\ status' = [action |-> "create", status |-> outcome]
            /\ isConfirmationOpen' = ~isConfirmationOpen
            /\ closed' = TRUE
  /\ UNCHANGED <<addressVars, isDevelopment, isNameValid, name, isPassValid, password, cardVars>>

Next ==
  \/ _onChangePass
  \/ _onChangeDerive
  \/ _onChangeSeed
  \/ _onChangePairType
  \/ _selectSeedType
  \/ _onChangeName
  \/ _toggleConfirmation
  \/ _onCommit

Spec == Init /\ [][Next]_vars

----------------------------------------------------------------------------
(* Codes/Code.tsx: the code card *)

MaxForgetCalls == 2

CreateIdle ==
  /\ address = NULL
  /\ deriveError = NULL
  /\ derivePath = <<>>
  /\ isSeedValid = FALSE
  /\ pairType = DEFAULT_PAIR_TYPE
  /\ seed = <<>>
  /\ seedType = "bip"
  /\ isDevelopment = FALSE
  /\ isConfirmationOpen = FALSE
  /\ isNameValid = FALSE
  /\ name = <<>>
  /\ isPassValid = FALSE
  /\ password = 0
  /\ lastOp = "none"
  /\ escaped = FALSE
  /\ persisted = {}
  /\ status = NULL
  /\ closed = TRUE

\* the card as constructed, over a store of codes; codeHash "" is an absent
\* code hash
InitCode ==
  /\ isForgetOpen = FALSE
  /\ isRemoveABIOpen = FALSE
  /\ codeHash \in CodeHashes \cup {""}
  /\ allCode \in [CodeHashes -> AbiStates]
  /\ forgetCalls = 0
  /\ consoleErrors = 0
  /\ cardOp = "none"
  /\ cardEscaped = FALSE
  /\ CreateIdle

toggleForget ==
  /\ isForgetOpen' = ~isForgetOpen
  /\ cardOp' = "toggleForget"
  /\ cardEscaped' = FALSE
  /\ UNCHANGED <<isRemoveABIOpen, codeHash, allCode, forgetCalls, consoleErrors, createVars>>

toggleRemoveABI ==
  /\ isRemoveABIOpen' = ~isRemoveABIOpen
  /\ cardOp' = "toggleRemoveABI"
  /\ cardEscaped' = FALSE
  /\ UNCHANGED <<isForgetOpen, codeHash, allCode, forgetCalls, consoleErrors, createVars>>

\* onForget that closes the dialog only when forgetCode returned
onForget_NoFinally ==
  /\ isForgetOpen
  /\ forgetCalls < MaxForgetCalls
  /\ cardOp' = "onForget"
  /\ cardEscaped' = FALSE
  /\ IF codeHash = ""
     THEN UNCHANGED <<isForgetOpen, allCode, forgetCalls, consoleErrors>>
     ELSE \E outcome \in {"returns", "throws"} :
            /\ forgetCalls' = forgetCalls + 1
            /\ IF outcome = "returns"
               THEN /\ allCode' = [allCode EXCEPT ![codeHash] = "absent"]
                    /\ consoleErrors' = consoleErrors
                    /\ isForgetOpen' = ~isForgetOpen
               ELSE /\ allCode' = allCode
                    /\ consoleErrors' = consoleErrors + 1
                    /\ isForgetOpen' = isForgetOpen
  /\ UNCHANGED <<isRemoveABIOpen, codeHash, createVars>>

\* reached from the Forget modal, rendered when isForgetOpen;
\* contracts.forgetCode returns or throws
onForget ==
  /\ isForgetOpen
  /\ forgetCalls < MaxForgetCalls
  /\ cardOp' = "onForget"
  /\ cardEscaped' = FALSE
  /\ IF codeHash = ""
     THEN UNCHANGED <<isForgetOpen, allCode, forgetCalls, consoleErrors>>
     ELSE \E outcome \in {"returns", "throws"} :
            /\ forgetCalls' = forgetCalls + 1
            /\ IF outcome = "returns"
               THEN /\ allCode' = [allCode EXCEPT ![codeHash] = "absent"]
                    /\ consoleErrors' = consoleErrors
               ELSE /\ allCode' = allCode
                    /\ consoleErrors' = consoleErrors + 1
            /\ isForgetOpen' = ~isForgetOpen
  /\ UNCHANGED <<isRemoveABIOpen, codeHash, createVars>>

\* reached from the ABI row and from the RemoveABI modal; contracts.saveCode
\* resolves or rejects, and a rejection rejects the handler's promise
onChangeABI ==
  /\ cardOp' = "onChangeABI"
  /\ \E abi \in {"stored", "withAbi"}, outcome \in {"resolves", "rejects"} :
       /\ abi = "withAbi" \/ isRemoveABIOpen
       /\ cardEscaped' = (outcome = "rejects")
       /\ allCode' = IF outcome = "resolves" /\ codeHash \in CodeHashes
                     THEN [allCode EXCEPT ![codeHash] = abi]
                     ELSE allCode
  /\ UNCHANGED <<isForgetOpen, isRemoveABIOpen, codeHash, forgetCalls, consoleErrors, createVars>>

NextCode ==
  \/ toggleForget
  \/ toggleRemoveABI
  \/ onForget
  \/ onChangeABI

SpecCode == InitCode /\ [][NextCode]_vars

----------------------------------------------------------------------------
(* Properties *)

\* the seed's own well-formedness under its seed type
SeedWellFormed ==
  IF seedType = "raw" THEN rawValidate(seed) ELSE mnemonicValidate(seed)

\* the derivation path, read after a phrase without '/', has a soft junction
HasSoftSegment(path) ==
  LET ext == keyExtractSuri(Concat(<<W(1)>>, path))
  IN ~ext.threw /\ \E i \in 1..Len(ext.path) : ext.path[i].isSoft

HasSlash(s) == \E i \in 1..Len(s) : s[i].k = "sl"

\* C1: in every state of the dialog, address and deriveError are never both
\* present.
C1_NeverAddressAndError == ~(address # NULL /\ deriveError # NULL)

\* updateAddress returned a deriveError for a seed that is well-formed and
\* whose trimmed form would give an address
C1_Witness ==
  /\ lastOp = "updateAddress"
  /\ deriveError # NULL
  /\ address = NULL
  /\ isSeedValid
  /\ ~addressFromSeed(seed, derivePath, pairType).threw

\* C2 as stated: for every seed and every derivation path with a soft
\* segment, updateAddress under 'ed25519' returns a deriveError and no
\* address.
C2_SoftRejectedForEverySeed ==
  (lastOp = "updateAddress" /\ pairType = "ed25519" /\ HasSoftSegment(derivePath))
    => (deriveError # NULL /\ address = NULL)

\* C2 as amended: for every seed that contains no '/' and every derivation
\* path with a soft segment, updateAddress under 'ed25519' returns a
\* deriveError and no address, whatever the seed type and the seed's validity.
C2_SoftRejectedForSlashFreeSeed ==
  (/\ lastOp = "updateAddress"
   /\ pairType = "ed25519"
   /\ HasSoftSegment(derivePath)
   /\ ~HasSlash(seed))
    => (deriveError # NULL /\ address = NULL)

\* a well-formed slash-free seed with a soft path under ed25519
C2_Witness ==
  /\ lastOp = "updateAddress"
  /\ pairType = "ed25519"
  /\ HasSoftSegment(derivePath)
  /\ ~HasSlash(seed)
  /\ isSeedValid
  /\ deriveError = [message |-> "Soft derivation paths are not allowed on ed25519"]

\* C3: rawValidate(seed) is true exactly when the seed has 1 to 32 characters
\* or is a 0x-prefixed hex string of exactly 66 characters.
C3_RawValidateExact ==
  rawValidate(seed) <=>
    \/ StrLen(seed) >= 1 /\ StrLen(seed) <= 32
    \/ Len(seed) = 1 /\ seed[1] = HexTok(66)

\* updateAddress accepted a raw seed of 32 characters
C3_Witness ==
  /\ lastOp = "updateAddress"
  /\ seedType = "raw"
  /\ StrLen(seed) = 32
  /\ isSeedValid
  /\ address # NULL

\* C4: generateSeed always returns, with an address, no deriveError and
\* isSeedValid = TRUE.
C4_GenerateSeedAlwaysSucceeds ==
  lastOp = "generateSeed" =>
    (~escaped /\ address # NULL /\ deriveError = NULL /\ isSeedValid)

\* C5: updateAddress never throws: a secret URI that does not parse and a
\* soft junction under ed25519 come back as a deriveError, a failure of the
\* address computation as isSeedValid = FALSE with no address.
C5_UpdateAddressNeverThrows ==
  lastOp = "updateAddress" =>
    LET ext == keyExtractSuri(Concat(seed, derivePath))
    IN /\ ~escaped
       /\ ext.threw => deriveError # NULL
       /\ (/\ ~ext.threw
           /\ pairType = "ed25519"
           /\ \E i \in 1..Len(ext.path) : ext.path[i].isSoft) => deriveError # NULL
       /\ (/\ deriveError = NULL
           /\ SeedWellFormed
           /\ addressFromSeed(seed, derivePath, pairType).threw)
            => (~isSeedValid /\ address = NULL)

\* the address computation failed on a well-formed seed and a good path
C5_Witness ==
  /\ lastOp = "updateAddress"
  /\ ~escaped
  /\ deriveError = NULL
  /\ SeedWellFormed
  /\ addressFromSeed(seed, derivePath, pairType).threw
  /\ ~isSeedValid

\* C6: when updateAddress returns a deriveError, isSeedValid is the seed's
\* own well-formedness, whatever the path and the key-pair type.
C6_SeedValidityIndependent ==
  (lastOp = "updateAddress" /\ deriveError # NULL) => (isSeedValid = SeedWellFormed)

\* a valid seed with a bad path
C6_Witness ==
  /\ lastOp = "updateAddress"
  /\ deriveError # NULL
  /\ SeedWellFormed
  /\ isSeedValid

CommitAllowed ==
  /\ address # NULL
  /\ deriveError = NULL
  /\ isSeedValid
  /\ nameTrim(name) # <<>>
  /\ keyringIsPassValid(password)

\* C8: keyring.addUri is called only in a state that allows a commit, and a
\* commit attempt in any other state changes nothing outside the handler.
C8_CommitOnlyWhenValid ==
  [][ /\ persisted' # persisted => CommitAllowed
      /\ (lastOp' = "_onCommit" /\ ~CommitAllowed)
           => UNCHANGED <<persisted, status, closed, isConfirmationOpen>> ]_vars

\* a commit went through
C8_Witness ==
  /\ lastOp = "_onCommit"
  /\ persisted # {}
  /\ status # NULL
  /\ closed

\* C9: onForget with a code hash calls forgetCode and leaves the forget
\* dialog closed whether forgetCode returned or threw, never throwing itself;
\* without a code hash it calls nothing and leaves both dialogs as they were.
C9_ForgetAlwaysCloses ==
  [][ cardOp' = "onForget" =>
        IF codeHash # ""
        THEN /\ forgetCalls' = forgetCalls + 1
             /\ ~isForgetOpen'
             /\ ~cardEscaped'
             /\ isRemoveABIOpen' = isRemoveABIOpen
        ELSE UNCHANGED <<isForgetOpen, isRemoveABIOpen, forgetCalls, allCode, consoleErrors>> ]_vars

\* forgetCode threw, the error was logged and the dialog is closed
C9_Witness ==
  /\ cardOp = "onForget"
  /\ codeHash # ""
  /\ consoleErrors > 0
  /\ ~isForgetOpen
  /\ ~cardEscaped

\* C10: in every state of the dialog, isSeedValid implies that the seed
\* passes the validation of the seed type.
C10_SeedValidImpliesWellFormed == isSeedValid => SeedWellFormed

====
